---- MODULE Spec2Model ----
(***************************************************************************)
(* Brand sentiment dashboard: the text normaliser, the two-model sentiment *)
(* scorer, the hashtag extractor and the aggregation run, as implemented   *)
(* twice: the Streamlit script (app.py) and the FastAPI service            *)
(* (backend/main.py).                                                      *)
(*                                                                         *)
(* Text is a sequence of one-character strings.  Scores are fixed point:   *)
(* a sub-model output is an integer number of 1e-5, a fused score an       *)
(* integer number of 1e-6, so that 0.3*p + 0.7*c is 3*p + 7*c exactly.     *)
(***************************************************************************)
EXTENDS Integers, Sequences, FiniteSets, TLC

VARIABLES
    impl,           \* "app" (app.py) or "backend" (backend/main.py)
    pc,             \* position of the run
    text,           \* normaliser: the string handed to the next pass
    cleaned,        \* normaliser: results of the passes so far, oldest first
    post,           \* scorer: the post handed to analyze_sentiment
    scored,         \* scorer: what analyze_sentiment returned (or raised)
    feed,           \* run: what the acquisition collaborator yields
    max_results,    \* run: request.max_results (backend)
    tweets_data,    \* run: posts kept for analysis
    cursor,         \* run: number of posts the analysis loop has taken
    results,        \* run: analyzed_tweets (backend) / results (app)
    positive_count, \* run: backend counters
    neutral_count,
    negative_count,
    total_score,    \* run: backend running sum of fused scores
    response,       \* run: how the run ended and what the caller got
    top_positive,   \* run: app.py, the row labels of df.nlargest(3, ...)
    top_negative,   \* run: app.py, the row labels of df.nsmallest(3, ...)
    tag_texts,      \* hashtags: the texts scanned
    trending,       \* hashtags: what extract_hashtags returned
    num_tweets,     \* generator: the number of posts asked for
    batch,          \* generator: number of batches requested so far
    outcomes,       \* generator: what each requested batch came back as
    all_tweets,     \* generator: posts collected, each named by its batch
    warnings,       \* generator: number of st.warning calls
    generated,      \* generator: what generate_tweets_with_groq returned
    sentiment_by_date,  \* run: backend, the per-date counters in insertion order
    sentiment_timeline  \* run: backend, the timeline of the response

vars == <<impl, pc, text, cleaned, post, scored, feed, max_results, tweets_data,
          cursor, results, positive_count, neutral_count, negative_count, total_score,
          response, top_positive, top_negative, tag_texts, trending, num_tweets,
          batch, outcomes, all_tweets, warnings, generated, sentiment_by_date,
          sentiment_timeline>>

normVars == <<text, cleaned>>
scoreVars == <<post, scored>>
topVars == <<top_positive, top_negative>>
timeVars == <<sentiment_by_date, sentiment_timeline>>
runVars == <<feed, max_results, tweets_data, cursor, results, positive_count,
             neutral_count, negative_count, total_score, response, topVars,
             timeVars>>
tagVars == <<tag_texts, trending>>
genVars == <<num_tweets, batch, outcomes, all_tweets, warnings, generated>>

Impls == {"app", "backend"}

None == "None"

\* the run has not ended
NoResponse == [kind |-> "none"]

(***************************************************************************)
(* Characters and sequences                                                *)
(***************************************************************************)

\* \s of the re module, as far as the model's alphabets reach
IsSpace(c) == c \in {" ", "\t", "\n", "\r"}

\* \w of the re module, as far as the model's alphabets reach
IsWord(c) == c \in {"a", "b", "h", "p", "s", "t", "w", "x", "R", "T", "_"}

RECURSIVE Seqs(_, _)
\* all sequences over S of length at most n
Seqs(S, n) ==
    IF n = 0 THEN {<<>>}
    ELSE LET shorter == Seqs(S, n - 1)
         IN shorter \cup {Append(s, c) : s \in {t \in shorter : Len(t) = n - 1}, c \in S}

RECURSIVE Concat(_)
\* the concatenation of a sequence of sequences
Concat(ss) == IF ss = <<>> THEN <<>> ELSE Head(ss) \o Concat(Tail(ss))

\* does s hold the string p at position i
HasAt(s, i, p) ==
    /\ i + Len(p) - 1 <= Len(s)
    /\ \A k \in 1..Len(p) : s[i + k - 1] = p[k]

\* the character classes \s, \S and \w
InClass(cls, c) ==
    IF cls = "s" THEN IsSpace(c)
    ELSE IF cls = "S" THEN ~IsSpace(c)
    ELSE IsWord(c)

RECURSIVE Run(_, _, _)
\* length of the longest run of characters of class cls that starts at i
Run(cls, s, i) ==
    IF i > Len(s) \/ ~InClass(cls, s[i]) THEN 0 ELSE 1 + Run(cls, s, i + 1)

(***************************************************************************)
(* re.sub: leftmost, non-overlapping, greedy                               *)
(***************************************************************************)

\* length of the match of  prefix \S+  at i, 0 when there is none
PrefixNonSpace(s, i, p) ==
    IF HasAt(s, i, p) /\ Run("S", s, i + Len(p)) >= 1
    THEN Len(p) + Run("S", s, i + Len(p))
    ELSE 0

\* http\S+|www\S+|https\S+ : alternatives are tried in order at each position
UrlMatch(s, i) ==
    IF PrefixNonSpace(s, i, <<"h", "t", "t", "p">>) > 0
    THEN PrefixNonSpace(s, i, <<"h", "t", "t", "p">>)
    ELSE IF PrefixNonSpace(s, i, <<"w", "w", "w">>) > 0
    THEN PrefixNonSpace(s, i, <<"w", "w", "w">>)
    ELSE PrefixNonSpace(s, i, <<"h", "t", "t", "p", "s">>)

\* \@\w+
MentionMatch(s, i) ==
    IF HasAt(s, i, <<"@">>) /\ Run("w", s, i + 1) >= 1
    THEN 1 + Run("w", s, i + 1)
    ELSE 0

\* RT[\s]+
RetweetMatch(s, i) ==
    IF HasAt(s, i, <<"R", "T">>) /\ Run("s", s, i + 2) >= 1
    THEN 2 + Run("s", s, i + 2)
    ELSE 0

\* \s+
SpacesMatch(s, i) == Run("s", s, i)

\* length of the match of the named pattern at i, 0 when there is none
Match(pattern, s, i) ==
    IF pattern = "url" THEN UrlMatch(s, i)
    ELSE IF pattern = "mention" THEN MentionMatch(s, i)
    ELSE IF pattern = "retweet" THEN RetweetMatch(s, i)
    ELSE SpacesMatch(s, i)

RECURSIVE Sub(_, _, _, _)
\* re.sub(pattern, repl, s), scanning from i
Sub(pattern, repl, s, i) ==
    IF i > Len(s) THEN <<>>
    ELSE IF Match(pattern, s, i) > 0
    THEN repl \o Sub(pattern, repl, s, i + Match(pattern, s, i))
    ELSE <<s[i]>> \o Sub(pattern, repl, s, i + 1)

\* str.strip()
Strip(s) ==
    LET lead == Run("s", s, 1)
        keep == {k \in 1..Len(s) : ~IsSpace(s[k])}
    IN IF keep = {} THEN <<>>
       ELSE SubSeq(s, lead + 1, CHOOSE k \in keep : \A j \in keep : j <= k)

(***************************************************************************)
(* TextNormalizer                                                          *)
(***************************************************************************)

\* app.py clean_text
clean_text(s) ==
    LET t1 == Sub("url", <<>>, s, 1)
        t2 == Sub("mention", <<>>, t1, 1)
        t3 == Sub("retweet", <<>>, t2, 1)
    IN Strip(t3)

\* backend/main.py clean_tweet
clean_tweet(s) ==
    LET t1 == Sub("url", <<>>, s, 1)
        t2 == Sub("retweet", <<>>, t1, 1)
        t3 == Sub("spaces", <<" ">>, t2, 1)
    IN Strip(t3)

\* the normaliser of the implementation
Normalize(i, s) == IF i = "app" THEN clean_text(s) ELSE clean_tweet(s)

(***************************************************************************)
(* Values the parts of the state hold while another part runs              *)
(***************************************************************************)

NormIdle == text = <<>> /\ cleaned = <<>>
ScoreIdle == post = None /\ scored = None
RunIdle ==
    /\ feed = <<>> /\ max_results = 0 /\ tweets_data = <<>> /\ results = <<>>
    /\ positive_count = 0 /\ neutral_count = 0 /\ negative_count = 0
    /\ total_score = 0 /\ cursor = 0 /\ response = NoResponse
    /\ top_positive = <<>> /\ top_negative = <<>>
    /\ sentiment_by_date = <<>> /\ sentiment_timeline = <<>>
TagIdle == tag_texts = <<>> /\ trending = <<>>

\* generate_tweets_with_groq has not returned
NotReturned == [returned |-> FALSE]

GenIdle ==
    /\ num_tweets = 0 /\ batch = 0 /\ outcomes = <<>> /\ all_tweets = <<>>
    /\ warnings = 0 /\ generated = NotReturned

(***************************************************************************)
(* Normaliser runs: a text is normalised, and the result normalised again  *)
(***************************************************************************)

MaxTokens == 3
MaxLen == 7
MaxPasses == 2

\* URLs, mentions, the retweet marker and whitespace
RemovableTokens ==
    { <<"h", "t", "t", "p", "x">>, <<"w", "w", "w", "x">>,
      <<"h", "t", "t", "p", "s", "x">>,
      <<"@", "a">>, <<"@", "h", "t", "t", "p", "s">>,
      <<"R", "T", " ">>, <<" ">> }

\* texts that consist only of removable tokens
RemovableTexts == {Concat(ts) : ts \in Seqs(RemovableTokens, MaxTokens)}

\* the retweet marker's letters, the mention sign, whitespace, and w: an
\* ordinary word character and, tripled, a URL prefix
IdemAlphabet == {"R", "T", "@", " ", "w"}

\* the string the next pass is applied to
Current == IF cleaned = <<>> THEN text ELSE cleaned[Len(cleaned)]

InitRemovable ==
    /\ impl \in Impls
    /\ pc = "normalize"
    /\ text \in RemovableTexts
    /\ cleaned = <<>>
    /\ ScoreIdle /\ RunIdle /\ TagIdle /\ GenIdle

InitIdem ==
    /\ impl \in Impls
    /\ pc = "normalize"
    /\ text \in Seqs(IdemAlphabet, MaxLen)
    /\ cleaned = <<>>
    /\ ScoreIdle /\ RunIdle /\ TagIdle /\ GenIdle

\* one call of app.py clean_text
CleanTextPass ==
    /\ pc = "normalize" /\ impl = "app"
    /\ Len(cleaned) < MaxPasses
    /\ cleaned' = Append(cleaned, clean_text(Current))
    /\ UNCHANGED <<impl, pc, text, scoreVars, runVars, tagVars, genVars>>

\* one call of backend clean_tweet
CleanTweetPass ==
    /\ pc = "normalize" /\ impl = "backend"
    /\ Len(cleaned) < MaxPasses
    /\ cleaned' = Append(cleaned, clean_tweet(Current))
    /\ UNCHANGED <<impl, pc, text, scoreVars, runVars, tagVars, genVars>>

NextNorm == CleanTextPass \/ CleanTweetPass

SpecRemovable == InitRemovable /\ [][NextNorm]_vars
SpecIdem == InitIdem /\ [][NextNorm]_vars

\* C3: a text made only of URLs, mentions, RT markers and whitespace
\* normalises to the empty string, under clean_text and under clean_tweet.
C3_RemovableToEmpty ==
    (pc = "normalize" /\ Len(cleaned) >= 1) => cleaned[1] = <<>>

\* the same for app.py clean_text alone
C3_RemovableToEmptyApp ==
    (pc = "normalize" /\ impl = "app" /\ Len(cleaned) >= 1) => cleaned[1] = <<>>

\* C4: normalising an already normalised text changes nothing.
C4_Idempotent ==
    (pc = "normalize" /\ Len(cleaned) >= 2) => cleaned[2] = cleaned[1]

(***************************************************************************)
(* SentimentScorer                                                         *)
(*                                                                         *)
(* A post carries its text and what each sub-model does on its normalised  *)
(* text: tb for TextBlob(...).sentiment.polarity, vd for                   *)
(* polarity_scores(...)["compound"]; each is Value(v), v in [-1, 1] (in    *)
(* 1e-5), or Throw.                                                        *)
(***************************************************************************)

Throw == [throws |-> TRUE, value |-> 0]
Value(v) == [throws |-> FALSE, value |-> v]

\* 1.0 as a sub-model output (1e-5 units)
SubOne == 10 ^ 5

\* the weights 0.3 and 0.7, in tenths
WeightPolarity == 3
WeightCompound == 7

\* the threshold 0.05, in 1e-6
Threshold == 50000

\* n / d rounded to the nearest integer, halves to the even neighbour (d > 0)
RoundDiv(n, d) ==
    LET q == n \div d
        r == n % d
    IN IF 2 * r < d THEN q
       ELSE IF 2 * r > d THEN q + 1
       ELSE IF q % 2 = 0 THEN q ELSE q + 1

\* round(score, 3) of a fused score, again in 1e-6
Round3(score) == 1000 * RoundDiv(score, 1000)

\* app.py: avg_score = (polarity * 0.3) + (vader_score * 0.7)
avg_score_app(polarity, vader_score) ==
    WeightPolarity * polarity + WeightCompound * vader_score

\* the fusion with both inputs weighted 0.7
avg_score_backend_unnormalised(polarity, vader_compound) ==
    WeightCompound * polarity + WeightCompound * vader_compound

\* backend: avg_score = (polarity * 0.3) + (vader_compound * 0.7)
avg_score_backend(polarity, vader_compound) ==
    WeightPolarity * polarity + WeightCompound * vader_compound

\* the labelling with inclusive thresholds
label_app_inclusive(avg_score) ==
    IF avg_score >= Threshold THEN "Positive"
    ELSE IF avg_score <= -Threshold THEN "Negative"
    ELSE "Neutral"

\* app.py: the label of a fused score
label_app(avg_score) ==
    IF avg_score > Threshold THEN "Positive"
    ELSE IF avg_score < -Threshold THEN "Negative"
    ELSE "Neutral"

\* backend: the label of a fused score
label_backend(avg_score) ==
    IF avg_score > Threshold THEN "Positive"
    ELSE IF avg_score < -Threshold THEN "Negative"
    ELSE "Neutral"

\* what a call of analyze_sentiment yields: a return value (raised = FALSE) or
\* an exception leaving the function; tb_calls and vader_calls count the
\* invocations of the two sub-models
Returned(score, label, tb_calls, vader_calls) ==
    [raised |-> FALSE, score |-> score, label |-> label,
     tb_calls |-> tb_calls, vader_calls |-> vader_calls]

Raised(tb_calls, vader_calls) ==
    [raised |-> TRUE, score |-> 0, label |-> None,
     tb_calls |-> tb_calls, vader_calls |-> vader_calls]

\* app.py analyze_sentiment: neither sub-model call is guarded
analyze_sentiment_app(p) ==
    IF clean_text(p.text) = <<>> THEN Returned(0, "Neutral", 0, 0)
    ELSE IF p.tb.throws THEN Raised(1, 0)
    ELSE IF p.vd.throws THEN Raised(1, 1)
    ELSE Returned(avg_score_app(p.tb.value, p.vd.value),
                  label_app(avg_score_app(p.tb.value, p.vd.value)), 1, 1)

\* backend analyze_sentiment: TextBlob is guarded by try/except, VADER is not
analyze_sentiment_backend(p) ==
    IF clean_tweet(p.text) = <<>> THEN Returned(0, "Neutral", 0, 0)
    ELSE LET polarity == IF p.tb.throws THEN 0 ELSE p.tb.value
         IN IF p.vd.throws THEN Raised(1, 1)
            ELSE Returned(avg_score_backend(polarity, p.vd.value),
                          label_backend(avg_score_backend(polarity, p.vd.value)), 1, 1)

\* app.py: the row appended to results for a scored post
ResultRow(p, a) ==
    [text |-> p.text, score |-> a.score, sentiment_score |-> a.score,
     label |-> a.label, tb_calls |-> a.tb_calls, vader_calls |-> a.vader_calls]

\* backend: the TweetData appended to analyzed_tweets for a scored post; score
\* is the unrounded value that went into total_score
TweetData(p, a) ==
    [text |-> p.text, score |-> a.score, sentiment_score |-> Round3(a.score),
     label |-> a.label, tb_calls |-> a.tb_calls, vader_calls |-> a.vader_calls]

(***************************************************************************)
(* Scorer runs: one post is scored and recorded                            *)
(***************************************************************************)

ScoreTexts ==
    { <<>>, <<" ">>, <<" ", " ">>, <<"@", "a">>, <<"R", "T", " ">>,
      <<"h", "t", "t", "p", "x">>, <<"a">>, <<"R", "T", " ", "@", "a", " ", "a">> }

\* -1, the values around the two thresholds, 0 and 1
PolarityValues == {-SubOne, -16667, -16662, 0, 16662, 16667, SubOne}
CompoundValues == {-SubOne, -2, 0, 2, SubOne}

ScorePosts ==
    [text : ScoreTexts,
     tb : {Value(v) : v \in PolarityValues} \cup {Throw},
     vd : {Value(v) : v \in CompoundValues} \cup {Throw}]

InitScore ==
    /\ impl \in Impls
    /\ pc = "score"
    /\ post \in ScorePosts
    /\ scored = None
    /\ NormIdle /\ RunIdle /\ TagIdle /\ GenIdle

\* app.py: analyze_sentiment(text) and the append of its row
ScoreApp ==
    /\ pc = "score" /\ impl = "app"
    /\ LET a == analyze_sentiment_app(post)
       IN scored' = IF a.raised THEN a ELSE ResultRow(post, a) @@ a
    /\ pc' = "scored"
    /\ UNCHANGED <<impl, post, normVars, runVars, tagVars, genVars>>

\* backend: analyze_sentiment(text) and the append of its TweetData
ScoreBackend ==
    /\ pc = "score" /\ impl = "backend"
    /\ LET a == analyze_sentiment_backend(post)
       IN scored' = IF a.raised THEN a ELSE TweetData(post, a) @@ a
    /\ pc' = "scored"
    /\ UNCHANGED <<impl, post, normVars, runVars, tagVars, genVars>>

NextScore == ScoreApp \/ ScoreBackend

SpecScore == InitScore /\ [][NextScore]_vars

\* the scorer returned a value for the post
HasScore == pc = "scored" /\ ~scored.raised

\* C5: the label is Positive iff the fused score is above 0.05, Negative iff
\* it is below -0.05 and Neutral otherwise, so 0.05 and -0.05 are Neutral.
C5_LabelFromScore ==
    HasScore =>
        /\ scored.label \in {"Positive", "Neutral", "Negative"}
        /\ scored.label = "Positive" <=> scored.score > 50000
        /\ scored.label = "Negative" <=> scored.score < -50000

\* a post scored exactly 0.05 is Neutral
C5_Witness == HasScore /\ scored.score = 50000 /\ scored.label = "Neutral"

\* a post scored 0.050001 is Positive, one scored -0.050001 Negative
C5_WitnessAbove == HasScore /\ scored.score = 50001 /\ scored.label = "Positive"
C5_WitnessBelow == HasScore /\ scored.score = -50001 /\ scored.label = "Negative"

\* C8: a post whose normalised text is empty scores (0.0, Neutral) with no
\* sub-model invoked; any other post has both sub-models invoked exactly once.
C8_EmptyShortCircuit ==
    pc = "scored" =>
        IF Normalize(impl, post.text) = <<>>
        THEN /\ ~scored.raised
             /\ scored.score = 0 /\ scored.label = "Neutral"
             /\ scored.tb_calls = 0 /\ scored.vader_calls = 0
        ELSE scored.tb_calls = 1 /\ scored.vader_calls = 1

\* the polarity and the compound that enter the fusion for the post: 0.0 for
\* both on the empty-text path, 0.0 for a sub-model that failed
UsedPolarity ==
    IF Normalize(impl, post.text) = <<>> \/ post.tb.throws THEN 0 ELSE post.tb.value
UsedCompound ==
    IF Normalize(impl, post.text) = <<>> \/ post.vd.throws THEN 0 ELSE post.vd.value

\* C10: the fused score is 0.3 * polarity + 0.7 * compound and lies in
\* [-1, 1], also as recorded (the backend records it rounded to 3 decimals).
C10_FusedInRange ==
    HasScore =>
        /\ scored.score = 3 * UsedPolarity + 7 * UsedCompound
        /\ scored.score >= -1000000 /\ scored.score <= 1000000
        /\ scored.sentiment_score >= -1000000 /\ scored.sentiment_score <= 1000000
        /\ impl = "backend" =>
              /\ scored.sentiment_score % 1000 = 0
              /\ 2 * (scored.sentiment_score - scored.score) \in -1000..1000

\* both sub-models at their maximum give exactly 1.0
C10_Witness ==
    /\ HasScore /\ post.tb = Value(100000) /\ post.vd = Value(100000)
    /\ scored.score = 1000000 /\ scored.sentiment_score = 1000000

(***************************************************************************)
(* The analysis run                                                        *)
(***************************************************************************)

MaxPosts == 3

\* backend: max_results = min(request.max_results, 500)
MaxResultsCap == 500

RECURSIVE CountLabel(_, _)
\* app.py: (df["sentiment"] == label).sum()
CountLabel(rows, label) ==
    IF rows = <<>> THEN 0
    ELSE (IF Head(rows).label = label THEN 1 ELSE 0) + CountLabel(Tail(rows), label)

RECURSIVE SumScores(_)
\* app.py: the sum behind df["sentiment_score"].mean()
SumScores(rows) ==
    IF rows = <<>> THEN 0 ELSE Head(rows).score + SumScores(Tail(rows))

\* str.startswith
StartsWith(s, p) == HasAt(s, 1, p)

RECURSIVE Scraped(_, _, _)
\* backend: the scraping loop over the items from position i on (1-based):
\* stop at max_results items, skip retweets, keep the rest
Scraped(items, i, limit) ==
    IF i > Len(items) \/ i - 1 >= limit THEN <<>>
    ELSE IF StartsWith(items[i].text, <<"R", "T", " ", "@">>)
    THEN Scraped(items, i + 1, limit)
    ELSE <<items[i]>> \o Scraped(items, i + 1, limit)

Min(a, b) == IF a < b THEN a ELSE b

\* the counters with the Neutral branch missing
Tally_without_neutral(counts, label) ==
    IF label = "Positive" THEN [counts EXCEPT !.positive = @ + 1]
    ELSE IF label = "Negative" THEN [counts EXCEPT !.negative = @ + 1]
    ELSE counts

\* backend: the counters after a post with this label
Tally(counts, label) ==
    IF label = "Positive" THEN [counts EXCEPT !.positive = @ + 1]
    ELSE IF label = "Negative" THEN [counts EXCEPT !.negative = @ + 1]
    ELSE [counts EXCEPT !.neutral = @ + 1]

\* count / total * 100 rounded to one decimal, in tenths of a percent
Percentage(count, total) == RoundDiv(1000 * count, total)

\* the overall label taken from the sum of the scores instead of their mean
overall_backend_of_sum(sum, n) ==
    IF sum > Threshold THEN "Positive"
    ELSE IF sum < -Threshold THEN "Negative"
    ELSE "Mixed/Neutral"

\* backend: the overall label of the mean total_score / total_tweets
overall_backend(sum, n) ==
    IF sum > Threshold * n THEN "Positive"
    ELSE IF sum < -Threshold * n THEN "Negative"
    ELSE "Mixed/Neutral"

\* app.py: the overall label of the mean of the scores
overall_app(sum, n) ==
    IF sum > Threshold * n THEN "Positive"
    ELSE IF sum < -Threshold * n THEN "Negative"
    ELSE "Neutral"

\* app.py: df.nlargest(3, ...) and df.nsmallest(3, ...)
SamplePosts == 3

RECURSIVE SelectN(_, _, _, _)
\* pandas nlargest / nsmallest with keep="first": the row labels (positions in
\* rows) of the n rows that come first when the rows left are ranked by score,
\* descending (sign = 1) or ascending (sign = -1), equal scores in row order
SelectN(rows, left, n, sign) ==
    IF n = 0 \/ left = {} THEN <<>>
    ELSE LET best == CHOOSE k \in left : \A j \in left :
                        \/ sign * rows[j].score < sign * rows[k].score
                        \/ rows[j].score = rows[k].score /\ k <= j
         IN <<best>> \o SelectN(rows, left \ {best}, n - 1, sign)

\* the selection that prefers the last of the rows with equal scores
nlargest_keep_last(rows, n) ==
    LET m == Len(rows)
        flipped == SelectN([k \in 1..m |-> rows[m + 1 - k]], 1..m, n, 1)
    IN [k \in 1..Len(flipped) |-> m + 1 - flipped[k]]

\* df.nlargest(n, "sentiment_score")
nlargest(rows, n) == SelectN(rows, 1..Len(rows), n, 1)

\* df.nsmallest(n, "sentiment_score")
nsmallest(rows, n) == SelectN(rows, 1..Len(rows), n, -1)

\* the report of a run; the mean is the fraction score_sum / total_tweets
Report(overall, sum, n, pos, neu, neg) ==
    [kind |-> "report", total_tweets |-> n, overall_sentiment |-> overall,
     score_sum |-> sum, sentiment_score |-> 1000 * RoundDiv(sum, 1000 * n),
     positive_count |-> pos, neutral_count |-> neu, negative_count |-> neg,
     positive_percentage |-> Percentage(pos, n),
     neutral_percentage |-> Percentage(neu, n),
     negative_percentage |-> Percentage(neg, n)]

\* a timestamp: tweet.date
DateTime(year, month, day, hour) == [year |-> year, month |-> month, day |-> day, hour |-> hour]

DigitChars == <<"0", "1", "2", "3", "4", "5", "6", "7", "8", "9">>

RECURSIVE Padded(_, _)
\* the decimal digits of n, zero-padded to width characters
Padded(n, width) ==
    IF width <= 1 /\ n < 10 THEN <<DigitChars[n + 1]>>
    ELSE Append(Padded(n \div 10, width - 1), DigitChars[(n % 10) + 1])

\* tweet_info['date'].strftime('%Y-%m-%d')
strftime(date) ==
    Padded(date.year, 4) \o <<"-">> \o Padded(date.month, 2) \o <<"-">>
        \o Padded(date.day, 2)

\* ord() of the characters of a date key
Ord(c) == IF c = "-" THEN 45
          ELSE 47 + (CHOOSE k \in 1..10 : DigitChars[k] = c)

RECURSIVE StrLess(_, _)
\* a < b for str: the first differing character decides, a proper prefix is less
StrLess(a, b) ==
    IF b = <<>> THEN FALSE
    ELSE IF a = <<>> THEN TRUE
    ELSE IF Head(a) # Head(b) THEN Ord(Head(a)) < Ord(Head(b))
    ELSE StrLess(Tail(a), Tail(b))

\* label.lower()
label_lower(label) ==
    CASE label = "Positive" -> "positive"
      [] label = "Negative" -> "negative"
      [] label = "Neutral" -> "neutral"

\* backend: the counters a date starts with
NewBucket(date_key) ==
    [date |-> date_key, positive |-> 0, neutral |-> 0, negative |-> 0, total |-> 0]

\* backend: "Group by date" for one post; the dict keeps its keys in the order
\* they were inserted
GroupByDate(by_date, date_key, label) ==
    LET present == \E k \in 1..Len(by_date) : by_date[k].date = date_key
        with_key == IF present THEN by_date ELSE Append(by_date, NewBucket(date_key))
    IN [k \in 1..Len(with_key) |->
          IF with_key[k].date = date_key
          THEN [with_key[k] EXCEPT ![label_lower(label)] = @ + 1, !.total = @ + 1]
          ELSE with_key[k]]

\* sentiment_by_date.items() in the order of the dict
items_unsorted(by_date) == by_date

RECURSIVE sorted_items(_)
\* sorted(sentiment_by_date.items()): ascending by the date key, a str
sorted_items(by_date) ==
    IF by_date = <<>> THEN <<>>
    ELSE LET least == CHOOSE k \in 1..Len(by_date) :
                         \A j \in 1..Len(by_date) :
                            j # k => StrLess(by_date[k].date, by_date[j].date)
         IN <<by_date[least]>>
            \o sorted_items([k \in 1..(Len(by_date) - 1) |->
                               IF k < least THEN by_date[k] ELSE by_date[k + 1]])

\* backend: "Format sentiment over time"
Timeline(by_date) ==
    LET items == sorted_items(by_date)
    IN [k \in 1..Len(items) |->
          [date |-> items[k].date, positive |-> items[k].positive,
           neutral |-> items[k].neutral, negative |-> items[k].negative]]

\* backend: the HTTPException raised for an empty scrape
NoTweetsFound == [type |-> "HTTPException", status |-> 404]

\* an exception raised by a sub-model
SubModelError == [type |-> "Exception", status |-> 0]

\* backend: except Exception as e: raise HTTPException(status_code=500, ...)
\* (HTTPException is an Exception, so it is caught here as well)
except_handler(e) ==
    [kind |-> "http_error", status |-> 500, cause |-> e.type]

\* app.py: st.error(...) followed by st.stop()
Stopped(message) == [kind |-> "stopped", message |-> message]

\* app.py: an exception nothing catches ends the script run
Uncaught(e) == [kind |-> "uncaught", cause |-> e.type]

\* an ordinary text, a mention, a retweet, and the empty text
PlainText == <<"a">>

\* the timestamp of the posts whose date plays no part
SomeDay == DateTime(2024, 2, 2, 9)

MentionText == <<"@", "a">>
RetweetText == <<"R", "T", " ", "@", "a", " ", "a">>

\* the posts a feed is made of: scores 1.0, -1.0, 0.0 and -0.3, a post on
\* which TextBlob fails, one on which VADER fails, and the three other texts
PipelinePosts ==
    { [date |-> SomeDay, text |-> PlainText,
        tb |-> Value(SubOne), vd |-> Value(SubOne)],
      [date |-> SomeDay, text |-> PlainText,
        tb |-> Value(-SubOne), vd |-> Value(-SubOne)],
      [date |-> SomeDay, text |-> PlainText,
        tb |-> Value(0), vd |-> Value(0)],
      [date |-> SomeDay, text |-> PlainText,
        tb |-> Value(-SubOne), vd |-> Value(0)],
      [date |-> SomeDay, text |-> PlainText,
        tb |-> Throw, vd |-> Value(SubOne)],
      [date |-> SomeDay, text |-> PlainText,
        tb |-> Value(SubOne), vd |-> Throw],
      [date |-> SomeDay, text |-> <<>>,
        tb |-> Value(0), vd |-> Value(0)],
      [date |-> SomeDay, text |-> MentionText,
        tb |-> Value(0), vd |-> Value(0)],
      [date |-> SomeDay, text |-> RetweetText,
        tb |-> Value(SubOne), vd |-> Value(SubOne)] }

\* request.max_results: nothing, fewer than the feed may hold, more than the cap
RequestedMax == {0, MaxPosts - 1, MaxResultsCap + 100}

Init ==
    /\ impl \in Impls
    /\ pc = "start"
    /\ feed \in Seqs(PipelinePosts, MaxPosts)
    /\ max_results \in (IF impl = "backend" THEN RequestedMax ELSE {0})
    /\ tweets_data = <<>> /\ cursor = 0 /\ results = <<>>
    /\ positive_count = 0 /\ neutral_count = 0 /\ negative_count = 0
    /\ total_score = 0
    /\ response = NoResponse
    /\ top_positive = <<>> /\ top_negative = <<>>
    /\ sentiment_by_date = <<>> /\ sentiment_timeline = <<>>
    /\ NormIdle /\ ScoreIdle /\ TagIdle /\ GenIdle

\* backend analyze_brand: the scraping loop
BackendScrape ==
    /\ pc = "start" /\ impl = "backend"
    /\ tweets_data' = Scraped(feed, 1, Min(max_results, MaxResultsCap))
    /\ pc' = "acquired"
    /\ UNCHANGED <<impl, feed, max_results, cursor, results, positive_count,
                   neutral_count, negative_count, total_score, response,
                   topVars, timeVars, normVars, scoreVars, tagVars, genVars>>

\* backend analyze_brand: if not tweets_data: raise HTTPException(404),
\* inside the try block whose handler catches every Exception
BackendNoTweets ==
    /\ pc = "acquired" /\ impl = "backend"
    /\ tweets_data = <<>>
    /\ response' = except_handler(NoTweetsFound)
    /\ pc' = "done"
    /\ UNCHANGED <<impl, feed, max_results, tweets_data, cursor, results,
                   positive_count, neutral_count, negative_count, total_score,
                   topVars, timeVars, normVars, scoreVars, tagVars, genVars>>

\* backend analyze_brand: one iteration of the analysis loop
BackendAnalyzeTweet ==
    /\ pc = "acquired" /\ impl = "backend"
    /\ cursor < Len(tweets_data)
    /\ LET tweet_info == tweets_data[cursor + 1]
           a == analyze_sentiment_backend(tweet_info)
           counts == Tally([positive |-> positive_count, neutral |-> neutral_count,
                            negative |-> negative_count], a.label)
       IN IF a.raised
          THEN /\ response' = except_handler(SubModelError)
               /\ pc' = "done"
               /\ UNCHANGED <<cursor, results, positive_count, neutral_count,
                              negative_count, total_score, sentiment_by_date>>
          ELSE /\ total_score' = total_score + a.score
               /\ positive_count' = counts.positive
               /\ neutral_count' = counts.neutral
               /\ negative_count' = counts.negative
               /\ sentiment_by_date' =
                     GroupByDate(sentiment_by_date, strftime(tweet_info.date), a.label)
               /\ results' = Append(results, TweetData(tweet_info, a))
               /\ cursor' = cursor + 1
               /\ UNCHANGED <<pc, response>>
    /\ UNCHANGED <<impl, feed, max_results, tweets_data, topVars, sentiment_timeline,
                   normVars, scoreVars, tagVars, genVars>>

\* backend analyze_brand: the metrics and the response
BackendReport ==
    /\ pc = "acquired" /\ impl = "backend"
    /\ tweets_data # <<>> /\ cursor = Len(tweets_data)
    /\ LET total_tweets == Len(results)
       IN response' = Report(overall_backend(total_score, total_tweets), total_score,
                             total_tweets, positive_count, neutral_count, negative_count)
    /\ sentiment_timeline' = Timeline(sentiment_by_date)
    /\ pc' = "done"
    /\ UNCHANGED <<impl, feed, max_results, tweets_data, cursor, results,
                   positive_count, neutral_count, negative_count, total_score,
                   topVars, sentiment_by_date, normVars, scoreVars, tagVars, genVars>>

\* app.py: tweets = generate_tweets_with_groq(query, num_tweets)
AppGenerate ==
    /\ pc = "start" /\ impl = "app"
    /\ tweets_data' = feed
    /\ pc' = "acquired"
    /\ UNCHANGED <<impl, feed, max_results, cursor, results, positive_count,
                   neutral_count, negative_count, total_score, response,
                   topVars, timeVars, normVars, scoreVars, tagVars, genVars>>

\* app.py: if not tweets: st.error("No data available ..."); st.stop()
AppNoData ==
    /\ pc = "acquired" /\ impl = "app"
    /\ tweets_data = <<>>
    /\ response' = Stopped("No data available")
    /\ pc' = "done"
    /\ UNCHANGED <<impl, feed, max_results, tweets_data, cursor, results,
                   positive_count, neutral_count, negative_count, total_score,
                   topVars, timeVars, normVars, scoreVars, tagVars, genVars>>

\* app.py: one iteration of the analysis loop; a post without text is skipped
AppAnalyzeTweet ==
    /\ pc = "acquired" /\ impl = "app"
    /\ cursor < Len(tweets_data)
    /\ LET tweet == tweets_data[cursor + 1]
           a == analyze_sentiment_app(tweet)
       IN IF tweet.text = <<>>
          THEN /\ cursor' = cursor + 1
               /\ UNCHANGED <<pc, results, response>>
          ELSE IF a.raised
          THEN /\ response' = Uncaught(SubModelError)
               /\ pc' = "done"
               /\ UNCHANGED <<cursor, results>>
          ELSE /\ results' = Append(results, ResultRow(tweet, a))
               /\ cursor' = cursor + 1
               /\ UNCHANGED <<pc, response>>
    /\ UNCHANGED <<impl, feed, max_results, tweets_data, positive_count,
                   neutral_count, negative_count, total_score,
                   topVars, timeVars, normVars, scoreVars, tagVars, genVars>>

\* app.py: if not results: st.error("Could not analyze data ..."); st.stop()
AppNoResults ==
    /\ pc = "acquired" /\ impl = "app"
    /\ tweets_data # <<>> /\ cursor = Len(tweets_data)
    /\ results = <<>>
    /\ response' = Stopped("Could not analyze data")
    /\ pc' = "done"
    /\ UNCHANGED <<impl, feed, max_results, tweets_data, cursor, results,
                   positive_count, neutral_count, negative_count, total_score,
                   topVars, timeVars, normVars, scoreVars, tagVars, genVars>>

\* app.py: the metrics, the overall sentiment and the sample posts
AppReport ==
    /\ pc = "acquired" /\ impl = "app"
    /\ tweets_data # <<>> /\ cursor = Len(tweets_data)
    /\ results # <<>>
    /\ LET total_tweets == Len(results)
           sum == SumScores(results)
       IN response' = Report(overall_app(sum, total_tweets), sum, total_tweets,
                             CountLabel(results, "Positive"),
                             CountLabel(results, "Neutral"),
                             CountLabel(results, "Negative"))
    /\ top_positive' = nlargest(results, SamplePosts)
    /\ top_negative' = nsmallest(results, SamplePosts)
    /\ pc' = "done"
    /\ UNCHANGED <<impl, feed, max_results, tweets_data, cursor, results,
                   positive_count, neutral_count, negative_count, total_score,
                   timeVars, normVars, scoreVars, tagVars, genVars>>

Next ==
    \/ BackendScrape \/ BackendNoTweets \/ BackendAnalyzeTweet \/ BackendReport
    \/ AppGenerate \/ AppNoData \/ AppAnalyzeTweet \/ AppNoResults \/ AppReport

Spec == Init /\ [][Next]_vars

(***************************************************************************)
(* Larger batches: runs of posts scoring 0.9, then -0.9, then 0.0          *)
(***************************************************************************)

MaxBatch == 10

\* n copies of x
Repeat(x, n) == [k \in 1..n |-> x]

\* a post on which both sub-models return v
Uniform(v) == [date |-> SomeDay, text |-> PlainText, tb |-> Value(v), vd |-> Value(v)]

BlockFeeds ==
    { Repeat(Uniform(90000), i) \o Repeat(Uniform(-90000), j) \o Repeat(Uniform(0), k) :
        <<i, j, k>> \in {t \in (0..MaxBatch) \X (0..MaxBatch) \X (0..MaxBatch) :
                            t[1] + t[2] + t[3] <= MaxBatch} }

InitBatches ==
    /\ impl \in Impls
    /\ pc = "start"
    /\ feed \in Seqs(PipelinePosts, MaxPosts) \cup BlockFeeds
    /\ max_results \in (IF impl = "backend" THEN RequestedMax ELSE {0})
    /\ tweets_data = <<>> /\ cursor = 0 /\ results = <<>>
    /\ positive_count = 0 /\ neutral_count = 0 /\ negative_count = 0
    /\ total_score = 0
    /\ response = NoResponse
    /\ top_positive = <<>> /\ top_negative = <<>>
    /\ sentiment_by_date = <<>> /\ sentiment_timeline = <<>>
    /\ NormIdle /\ ScoreIdle /\ TagIdle /\ GenIdle

SpecBatches == InitBatches /\ [][Next]_vars

RECURSIVE WithText(_)
\* the posts that carry a text
WithText(ps) ==
    IF ps = <<>> THEN <<>>
    ELSE (IF Head(ps).text = <<>> THEN <<>> ELSE <<Head(ps)>>) \o WithText(Tail(ps))

\* the posts of the run that the analysis loop is to score
ToScore == IF impl = "app" THEN WithText(tweets_data) ELSE tweets_data

Done == pc = "done"

\* the score the claim C1 gives a post: a failed sub-model contributes 0.0
DegradedScore(p) ==
    IF Normalize(impl, p.text) = <<>> THEN 0
    ELSE 3 * (IF p.tb.throws THEN 0 ELSE p.tb.value)
         + 7 * (IF p.vd.throws THEN 0 ELSE p.vd.value)

\* C1: a sub-model failure never propagates: whatever the two sub-models do
\* on each post, every post of the batch is scored (a failed sub-model
\* counting 0.0) and the run ends with a report.
C1_NoFailurePropagates ==
    (Done /\ ToScore # <<>>) =>
        /\ response.kind = "report"
        /\ Len(results) = Len(ToScore)
        /\ \A k \in 1..Len(results) : results[k].score = DegradedScore(ToScore[k])

\* C1 restricted to the one guarded call: backend runs in which VADER never fails
C1_TextBlobGuardedInBackend ==
    (Done /\ impl = "backend" /\ ToScore # <<>>
          /\ \A k \in 1..Len(ToScore) : ~ToScore[k].vd.throws) =>
        /\ response.kind = "report"
        /\ Len(results) = Len(ToScore)
        /\ \A k \in 1..Len(results) : results[k].score = DegradedScore(ToScore[k])

\* C2: a run with no post to aggregate ends with the dedicated no-results
\* error (backend: status 404; app.py: the run is stopped) and no report.
C2_EmptyInputDistinct ==
    (Done /\ ToScore = <<>>) =>
        /\ response.kind # "report"
        /\ impl = "backend" => (response.kind = "http_error" /\ response.status = 404)
        /\ impl = "app" => response.kind = "stopped"

\* the same for app.py alone
C2_EmptyInputStopsApp ==
    (Done /\ impl = "app" /\ ToScore = <<>>) =>
        /\ response.kind = "stopped"
        /\ results = <<>>

\* the per-post label of the mean sum / n
LabelOfMean(sum, n) ==
    IF sum > 50000 * n THEN "Positive"
    ELSE IF sum < -50000 * n THEN "Negative"
    ELSE "Neutral"

Reported == Done /\ response.kind = "report"

\* C6 as claimed: the overall label is the per-post label of the mean score,
\* hence one of Positive, Neutral, Negative.
C6_OverallIsPostLabel ==
    Reported =>
        /\ response.overall_sentiment \in {"Positive", "Neutral", "Negative"}
        /\ response.overall_sentiment = LabelOfMean(SumScores(results), Len(results))

\* C6 as amended: the overall label is Positive when the mean score is above
\* 0.05, Negative when it is below -0.05, and otherwise the middle label,
\* which app.py names Neutral and the backend names Mixed/Neutral.
C6_OverallFromMean ==
    Reported =>
        LET mean_label == LabelOfMean(SumScores(results), Len(results))
        IN response.overall_sentiment =
              IF mean_label = "Neutral" /\ impl = "backend" THEN "Mixed/Neutral"
              ELSE mean_label

\* the mean decides against the majority of the per-post labels
C6_Witness ==
    /\ Reported
    /\ response.overall_sentiment = "Positive"
    /\ response.negative_count > response.positive_count + response.neutral_count

\* 5 posts at 0.9, 3 at -0.9 and 2 at 0.0: mean 0.18, overall Positive
C6_WitnessExample ==
    /\ Reported
    /\ response.positive_count = 5 /\ response.negative_count = 3
    /\ response.neutral_count = 2 /\ response.total_tweets = 10
    /\ response.score_sum = 1800000 /\ response.sentiment_score = 180000
    /\ response.overall_sentiment = "Positive"

\* the backend reports a mean inside [-0.05, 0.05]
C6_WitnessMiddle ==
    /\ Reported /\ impl = "backend" /\ Len(results) >= 2
    /\ response.overall_sentiment = "Mixed/Neutral"

\* C9: in a report the three counts add up to the total, each is the number
\* of posts the scorer gave that label, and the three percentages, each
\* rounded to one decimal, add up to 100 within 0.1.
C9_CountsAddUp ==
    Reported =>
        /\ response.total_tweets = Len(ToScore)
        /\ response.total_tweets = Len(results)
        /\ response.positive_count + response.neutral_count + response.negative_count
              = response.total_tweets
        /\ response.positive_count = CountLabel(results, "Positive")
        /\ response.neutral_count = CountLabel(results, "Neutral")
        /\ response.negative_count = CountLabel(results, "Negative")
        /\ \A k \in 1..Len(results) :
              results[k].label = LabelOfMean(DegradedScore(ToScore[k]), 1)
        /\ response.positive_percentage + response.neutral_percentage
              + response.negative_percentage \in 999..1001

\* three posts, one of each label: 33.3 + 33.3 + 33.3
C9_Witness ==
    /\ Reported
    /\ response.positive_count = 1 /\ response.neutral_count = 1
    /\ response.negative_count = 1
    /\ response.positive_percentage + response.neutral_percentage
          + response.negative_percentage = 999

(***************************************************************************)
(* HashtagExtractor                                                        *)
(***************************************************************************)

\* Counter(...).most_common(10)
TopTags == 10

RECURSIVE FindTags(_, _)
\* re.findall(r"#(\w+)", s), scanning from i: the captured groups in order
FindTags(s, i) ==
    IF i > Len(s) THEN <<>>
    ELSE IF s[i] = "#" /\ Run("w", s, i + 1) >= 1
    THEN <<SubSeq(s, i + 1, i + Run("w", s, i + 1))>>
         \o FindTags(s, i + 1 + Run("w", s, i + 1))
    ELSE FindTags(s, i + 1)

\* str.lower(), one character
LowerChar(c) == IF c = "T" THEN "t" ELSE IF c = "R" THEN "r" ELSE c

\* str.lower()
Lower(s) == [k \in 1..Len(s) |-> LowerChar(s[k])]

RECURSIVE FoundApp(_)
\* app.py: hashtags after the loop over the tweets
FoundApp(tweets) ==
    IF tweets = <<>> THEN <<>>
    ELSE FindTags(Head(tweets), 1) \o FoundApp(Tail(tweets))

RECURSIVE FoundBackend(_)
\* backend: hashtags after the loop over the tweets, lower-cased
FoundBackend(tweets) ==
    IF tweets = <<>> THEN <<>>
    ELSE LET found == FindTags(Head(tweets), 1)
         IN [k \in 1..Len(found) |-> Lower(found[k])] \o FoundBackend(Tail(tweets))

RECURSIVE Counter(_, _)
\* Counter(tags): the added tags counted, kept in first-seen order
Counter(tags, counted) ==
    IF tags = <<>> THEN counted
    ELSE LET t == Head(tags)
             at == {k \in 1..Len(counted) : counted[k].tag = t}
         IN IF at = {}
            THEN Counter(Tail(tags), Append(counted, [tag |-> t, count |-> 1]))
            ELSE Counter(Tail(tags),
                         [k \in 1..Len(counted) |->
                            IF k \in at THEN [counted[k] EXCEPT !.count = @ + 1]
                            ELSE counted[k]])

RECURSIVE most_common(_, _)
\* Counter.most_common(n): by descending count, equal counts in first-seen order
most_common(counted, n) ==
    IF n = 0 \/ counted = <<>> THEN <<>>
    ELSE LET best == CHOOSE k \in 1..Len(counted) :
                        /\ \A j \in 1..Len(counted) : counted[j].count <= counted[k].count
                        /\ \A j \in 1..(k - 1) : counted[j].count < counted[k].count
             rest == [j \in 1..(Len(counted) - 1) |->
                        IF j < best THEN counted[j] ELSE counted[j + 1]]
         IN <<counted[best]>> \o most_common(rest, n - 1)

RECURSIVE Keep(_)
\* backend: ... for tag, count in common if count > 1
Keep(common) ==
    IF common = <<>> THEN <<>>
    ELSE (IF Head(common).count > 1
          THEN <<[tag |-> <<"#">> \o Head(common).tag, count |-> Head(common).count]>>
          ELSE <<>>) \o Keep(Tail(common))

\* app.py extract_hashtags: the tags alone, as written in the text
extract_hashtags_app(tweets) ==
    LET hashtags == FoundApp(tweets)
        common == most_common(Counter(hashtags, <<>>), TopTags)
    IN IF hashtags # <<>>
       THEN [k \in 1..Len(common) |-> [tag |-> <<"#">> \o common[k].tag]]
       ELSE <<>>

\* backend extract_hashtags: tag and count, for the tags counted more than once
extract_hashtags_backend(tweets) ==
    Keep(most_common(Counter(FoundBackend(tweets), <<>>), TopTags))

(***************************************************************************)
(* Hashtag runs                                                            *)
(***************************************************************************)

MaxTagTokens == 3
MaxTagTexts == 2

TagTokens == { <<"#", "T">>, <<"#", "t">>, <<"#", "a">>, <<" ">>, <<"a">> }

TagTexts == {Concat(ts) : ts \in Seqs(TagTokens, MaxTagTokens)}

InitTags ==
    /\ impl \in Impls
    /\ pc = "extract"
    /\ tag_texts \in Seqs(TagTexts, MaxTagTexts)
    /\ trending = <<>>
    /\ NormIdle /\ ScoreIdle /\ RunIdle /\ GenIdle

\* app.py: hashtags = extract_hashtags(df["text"].tolist())
ExtractApp ==
    /\ pc = "extract" /\ impl = "app"
    /\ trending' = extract_hashtags_app(tag_texts)
    /\ pc' = "extracted"
    /\ UNCHANGED <<impl, tag_texts, normVars, scoreVars, runVars, genVars>>

\* backend: trending = extract_hashtags(tweet_texts)
ExtractBackend ==
    /\ pc = "extract" /\ impl = "backend"
    /\ trending' = extract_hashtags_backend(tag_texts)
    /\ pc' = "extracted"
    /\ UNCHANGED <<impl, tag_texts, normVars, scoreVars, runVars, genVars>>

NextTags == ExtractApp \/ ExtractBackend

SpecTags == InitTags /\ [][NextTags]_vars

\* every tag of the texts, lower-cased, in order of occurrence
SeenTags == FoundBackend(tag_texts)
DistinctTags == {SeenTags[k] : k \in 1..Len(SeenTags)}
TrueCount(t) == Cardinality({k \in 1..Len(SeenTags) : SeenTags[k] = t})
FirstSeen(t) == CHOOSE k \in 1..Len(SeenTags) :
                    SeenTags[k] = t /\ \A j \in 1..(k - 1) : SeenTags[j] # t

\* tag t ranks before tag u: more frequent, or as frequent and seen first
RanksBefore(t, u) ==
    \/ TrueCount(t) > TrueCount(u)
    \/ TrueCount(t) = TrueCount(u) /\ FirstSeen(t) < FirstSeen(u)

\* C7: the result lists the min(limit, distinct) most frequent tags, counted
\* case-insensitively, by descending count with ties in first-seen order,
\* each with its true count; it is empty exactly when no text has a hashtag.
C7_TrendingIsTopByCount ==
    pc = "extracted" =>
        /\ Len(trending) = Min(10, Cardinality(DistinctTags))
        /\ \A k \in 1..Len(trending) :
              /\ \E t \in DistinctTags : trending[k].tag = <<"#">> \o t
              /\ "count" \in DOMAIN trending[k]
              /\ \A t \in DistinctTags :
                    trending[k].tag = <<"#">> \o t => trending[k].count = TrueCount(t)
        /\ \A j, k \in 1..Len(trending) :
              j < k => \E t, u \in DistinctTags :
                          /\ trending[j].tag = <<"#">> \o t
                          /\ trending[k].tag = <<"#">> \o u
                          /\ RanksBefore(t, u)
        /\ trending = <<>> <=> SeenTags = <<>>

\* the backend on texts in which every tag occurs at least twice
C7_BackendOnRepeatedTags ==
    (pc = "extracted" /\ impl = "backend"
        /\ \A t \in DistinctTags : TrueCount(t) > 1) => C7_TrendingIsTopByCount

(***************************************************************************)
(* Sample posts of app.py: the most positive and the most negative posts   *)
(***************************************************************************)

MaxSampled == 4

\* posts scoring 1.0, 0.0 (two different texts), -0.3 and -1.0, and a post
\* without text
SampledPosts ==
    { [text |-> PlainText, tb |-> Value(SubOne), vd |-> Value(SubOne)],
      [text |-> PlainText, tb |-> Value(0), vd |-> Value(0)],
      [text |-> MentionText, tb |-> Value(0), vd |-> Value(0)],
      [text |-> PlainText, tb |-> Value(-SubOne), vd |-> Value(0)],
      [text |-> PlainText, tb |-> Value(-SubOne), vd |-> Value(-SubOne)],
      [text |-> <<>>, tb |-> Value(0), vd |-> Value(0)] }

InitSampled ==
    /\ impl = "app"
    /\ pc = "start"
    /\ feed \in Seqs(SampledPosts, MaxSampled)
    /\ max_results = 0
    /\ tweets_data = <<>> /\ cursor = 0 /\ results = <<>>
    /\ positive_count = 0 /\ neutral_count = 0 /\ negative_count = 0
    /\ total_score = 0
    /\ response = NoResponse
    /\ top_positive = <<>> /\ top_negative = <<>>
    /\ sentiment_by_date = <<>> /\ sentiment_timeline = <<>>
    /\ NormIdle /\ ScoreIdle /\ TagIdle /\ GenIdle

NextApp == AppGenerate \/ AppNoData \/ AppAnalyzeTweet \/ AppNoResults \/ AppReport

SpecSampled == InitSampled /\ [][NextApp]_vars

\* row j of results comes before row k when the rows are ranked by score,
\* descending (sign = 1) or ascending (sign = -1), equal scores in input order
Before(j, k, sign) ==
    \/ sign * results[j].score > sign * results[k].score
    \/ results[j].score = results[k].score /\ j < k

\* picked lists the first min(3, n) rows of that ranking, in ranking order
IsTop(picked, sign) ==
    /\ Len(picked) = (IF Len(results) < 3 THEN Len(results) ELSE 3)
    /\ \A a \in 1..Len(picked) : picked[a] \in 1..Len(results)
    /\ \A a, b \in 1..Len(picked) : a < b => Before(picked[a], picked[b], sign)
    /\ \A a \in 1..Len(picked) : \A k \in 1..Len(results) :
          (\A b \in 1..Len(picked) : picked[b] # k) => Before(picked[a], k, sign)

\* C11: topPositive is the min(3, n) highest-scored posts by descending score,
\* topNegative the min(3, n) lowest-scored posts by ascending score, posts
\* with equal scores in input order; fewer than 3 posts are all returned.
C11_TopThreeStable ==
    (Reported /\ impl = "app") => (IsTop(top_positive, 1) /\ IsTop(top_negative, -1))

\* four posts of which two share the third-highest score: the earlier one is
\* taken and the later one left out
C11_Witness ==
    /\ Reported /\ impl = "app" /\ Len(results) = 4
    /\ Len(top_positive) = 3
    /\ \E k \in 1..4 : /\ k > top_positive[3]
                       /\ results[k].score = results[top_positive[3]].score
                       /\ \A b \in 1..3 : top_positive[b] # k

\* two posts: both are returned in both lists
C11_WitnessTwoPosts ==
    /\ Reported /\ impl = "app" /\ Len(results) = 2
    /\ Len(top_positive) = 2 /\ Len(top_negative) = 2


(***************************************************************************)
(* The generator of app.py: generate_tweets_with_groq and the check its    *)
(* caller makes on what it returns.  A post is named by the batch it came  *)
(* from.                                                                   *)
(***************************************************************************)
MaxBatches == 3

BatchSize == 50

\* app.py: the slider of the side bar, 20 to 1000 in steps of 20
SliderValues == {20 * k : k \in 1..50}

\* batches = (num_tweets + batch_size - 1) // batch_size
Batches(num) == (num + BatchSize - 1) \div BatchSize

NumTweetsChoices == {n \in SliderValues : Batches(n) <= MaxBatches}

\* what one request of a batch can come back as
ApiError == [kind |-> "api_error", good |-> 0, bad |-> FALSE]
NotJson == [kind |-> "not_json", good |-> 0, bad |-> FALSE]
JsonObject(keys) == [kind |-> "object", good |-> keys, bad |-> FALSE]
JsonArray(good, bad) == [kind |-> "array", good |-> good, bad |-> bad]

\* the values json.loads(content) hands to the loop: the items of an array
\* (objects with "text", then possibly one without it), the keys of an object
Items(o) ==
    IF o.kind = "object" THEN Repeat("key", o.good)
    ELSE Repeat("post", o.good) \o (IF o.bad THEN <<"no_text">> ELSE <<>>)

RECURSIVE AppendItems(_, _, _, _)
\* for tweet_obj in tweets_data: all_tweets.append({"text": tweet_obj["text"],
\* ...}); if len(all_tweets) >= num_tweets: break.  tweet_obj["text"] raises
\* KeyError on an object without "text" and TypeError on a string.
AppendItems(all, items, b, num) ==
    IF items = <<>> THEN [all |-> all, raised |-> FALSE]
    ELSE IF Head(items) # "post" THEN [all |-> all, raised |-> TRUE]
    ELSE IF Len(all) + 1 >= num THEN [all |-> Append(all, b), raised |-> FALSE]
    ELSE AppendItems(Append(all, b), Tail(items), b, num)

ReturnedNone(error) == [returned |-> TRUE, none |-> TRUE, kept |-> <<>>, error |-> error]
ReturnedList(kept) == [returned |-> TRUE, none |-> FALSE, kept |-> kept, error |-> "none"]

\* number of posts of batch b in a list
FromBatch(all, b) == Cardinality({k \in 1..Len(all) : all[k] = b})

RECURSIVE SumTo(_, _)
SumTo(f, n) == IF n = 0 THEN 0 ELSE f[n] + SumTo(f, n - 1)

\* random.shuffle(all_tweets); all_tweets[:num_tweets]: any num_tweets of the
\* posts, given as the number of posts kept per batch
Slices(all, num) ==
    LET B == Batches(num)
        excess == IF Len(all) > num THEN Len(all) - num ELSE 0
        drops == {d \in [1..B -> 0..excess] :
                     /\ SumTo(d, B) = excess
                     /\ \A b \in 1..B : d[b] <= FromBatch(all, b)}
    IN {[b \in 1..B |-> FromBatch(all, b) - d[b]] : d \in drops}

\* the outcomes tried for a batch that asks for current_batch posts
BatchOutcomes(current_batch) ==
    {ApiError, NotJson, JsonObject(0), JsonObject(1)}
    \cup {JsonArray(good, bad) : good \in {0, 1, current_batch, current_batch + 1},
                                 bad \in BOOLEAN}

InitGenerate ==
    /\ impl = "app" /\ pc = "generate"
    /\ num_tweets \in NumTweetsChoices
    /\ batch = 0 /\ outcomes = <<>> /\ all_tweets = <<>> /\ warnings = 0
    /\ generated = NotReturned
    /\ NormIdle /\ ScoreIdle /\ RunIdle /\ TagIdle


\* app.py: st.secrets["GROQ_API_KEY"] is missing: st.error, return None
GenNoKey ==
    /\ pc = "generate"
    /\ generated' = ReturnedNone("no_key")
    /\ pc' = "returned"
    /\ UNCHANGED <<impl, num_tweets, batch, outcomes, all_tweets, warnings,
                   normVars, scoreVars, runVars, tagVars>>

\* app.py: the key is there; client, batch_size, all_tweets = [], batches
GenStart ==
    /\ pc = "generate"
    /\ pc' = "batches"
    /\ UNCHANGED <<impl, normVars, scoreVars, runVars, tagVars, genVars>>

\* app.py: one iteration of for i in range(batches): the request, json.loads
\* and the loop over its items.  Only json.JSONDecodeError is caught here;
\* any other exception reaches the outer handler, which returns None.
GenBatch ==
    /\ pc = "batches" /\ batch < Batches(num_tweets)
    /\ \E o \in BatchOutcomes(Min(BatchSize, num_tweets - Len(all_tweets))) :
          LET looped == AppendItems(all_tweets, Items(o), batch + 1, num_tweets)
          IN /\ outcomes' = Append(outcomes, o)
             /\ batch' = batch + 1
             /\ IF o.kind = "api_error"
                THEN /\ generated' = ReturnedNone("exception")
                     /\ pc' = "returned"
                     /\ UNCHANGED <<all_tweets, warnings>>
                ELSE IF o.kind = "not_json"
                THEN /\ warnings' = warnings + 1
                     /\ UNCHANGED <<all_tweets, generated, pc>>
                ELSE IF looped.raised
                THEN /\ all_tweets' = looped.all
                     /\ generated' = ReturnedNone("exception")
                     /\ pc' = "returned"
                     /\ UNCHANGED warnings
                ELSE /\ all_tweets' = looped.all
                     /\ UNCHANGED <<warnings, generated, pc>>
    /\ UNCHANGED <<impl, num_tweets, normVars, scoreVars, runVars, tagVars>>

\* app.py: after the last batch, random.shuffle and return all_tweets[:num_tweets]
GenReturn ==
    /\ pc = "batches" /\ batch = Batches(num_tweets)
    /\ \E kept \in Slices(all_tweets, num_tweets) : generated' = ReturnedList(kept)
    /\ pc' = "returned"
    /\ UNCHANGED <<impl, num_tweets, batch, outcomes, all_tweets, warnings,
                   normVars, scoreVars, runVars, tagVars>>

\* number of posts generate_tweets_with_groq returned
ReturnedPosts == IF generated.none THEN 0 ELSE SumTo(generated.kept, Len(generated.kept))

\* app.py: if not tweets: st.error("No data available ..."); st.stop()
GenNoData ==
    /\ pc = "returned"
    /\ ReturnedPosts = 0
    /\ response' = Stopped("No data available")
    /\ pc' = "done"
    /\ UNCHANGED <<impl, feed, max_results, tweets_data, cursor, results,
                   positive_count, neutral_count, negative_count, total_score,
                   topVars, timeVars, normVars, scoreVars, tagVars, genVars>>

\* app.py: the returned list is not empty and goes to the analysis loop
GenHandOver ==
    /\ pc = "returned"
    /\ ReturnedPosts > 0
    /\ pc' = "handed"
    /\ UNCHANGED <<impl, normVars, scoreVars, runVars, tagVars, genVars>>

NextGenerate ==
    GenNoKey \/ GenStart \/ GenBatch \/ GenReturn \/ GenNoData \/ GenHandOver

SpecGenerate == InitGenerate /\ [][NextGenerate]_vars

\* the caller has looked at what the generator returned
Checked == pc \in {"done", "handed"}

\* the key was there and every request was answered
Answered ==
    /\ generated.returned /\ generated.error # "no_key"
    /\ \A b \in 1..Len(outcomes) : outcomes[b].kind # "api_error"

\* a response that is not a JSON array of objects with "text"
Malformed(o) == o.kind # "array" \/ o.bad

\* number of posts the well-formed batches among the first n delivered
RECURSIVE WellFormedPosts(_)
WellFormedPosts(n) ==
    IF n = 0 THEN 0
    ELSE (IF Malformed(outcomes[n]) THEN 0 ELSE outcomes[n].good)
         + WellFormedPosts(n - 1)

\* C12: whatever the batches come back as, every batch is requested, a
\* malformed batch is dropped with a warning, the posts of the well-formed
\* batches are returned (at most num_tweets of them), and the run stops with
\* "No data available" only when no well-formed batch delivered a post.
C12_BadBatchOnlyDropped ==
    (Checked /\ Answered) =>
        /\ Len(outcomes) = Batches(num_tweets)
        /\ ~generated.none
        /\ warnings = Cardinality({b \in 1..Len(outcomes) : Malformed(outcomes[b])})
        /\ \A b \in 1..Len(outcomes) : Malformed(outcomes[b]) => generated.kept[b] = 0
        /\ ReturnedPosts = Min(num_tweets, WellFormedPosts(Len(outcomes)))
        /\ (response = Stopped("No data available")) <=> (ReturnedPosts = 0)
        /\ (\A b \in 1..Len(outcomes) : Malformed(outcomes[b])) => ReturnedPosts = 0

\* every malformed batch is one json.loads rejects
OnlyUnparsable == \A b \in 1..Len(outcomes) : Malformed(outcomes[b]) => outcomes[b].kind = "not_json"

\* the part of C12 the code keeps: batches json.loads rejects are dropped with
\* a warning and the posts of the other batches are returned
C12_UnparsableBatchDropped ==
    (Checked /\ Answered /\ OnlyUnparsable) => C12_BadBatchOnlyDropped

\* a run that collected a full batch and then lost it to a batch that parsed
\* as JSON without being an array of posts
C12_EarlierPostsLost ==
    /\ Checked /\ Answered
    /\ Len(all_tweets) >= BatchSize
    /\ response = Stopped("No data available")


(***************************************************************************)
(* The timeline of the backend: runs over dated posts                      *)
(***************************************************************************)
MaxDated == 3

\* the last hour of a year, two hours of one day, and days whose order as
\* numbers differs from the order of their undecorated digits
TimelineDates ==
    { DateTime(2023, 12, 31, 23), DateTime(2024, 2, 2, 9), DateTime(2024, 2, 2, 21),
      DateTime(2024, 2, 10, 0), DateTime(2024, 10, 2, 0) }

\* a positive, a neutral and a negative post for every timestamp
TimelinePosts ==
    { [date |-> d, text |-> PlainText, tb |-> Value(v), vd |-> Value(v)] :
        d \in TimelineDates, v \in {SubOne, 0, -SubOne} }

InitTimeline ==
    /\ impl = "backend"
    /\ pc = "start"
    /\ feed \in Seqs(TimelinePosts, MaxDated)
    /\ max_results = MaxResultsCap
    /\ tweets_data = <<>> /\ cursor = 0 /\ results = <<>>
    /\ positive_count = 0 /\ neutral_count = 0 /\ negative_count = 0
    /\ total_score = 0
    /\ response = NoResponse
    /\ top_positive = <<>> /\ top_negative = <<>>
    /\ sentiment_by_date = <<>> /\ sentiment_timeline = <<>>
    /\ NormIdle /\ ScoreIdle /\ TagIdle /\ GenIdle

NextBackend == BackendScrape \/ BackendNoTweets \/ BackendAnalyzeTweet \/ BackendReport

SpecTimeline == InitTimeline /\ [][NextBackend]_vars

\* the calendar date of a timestamp
Day(date) == <<date.year, date.month, date.day>>

\* day a is before day b
Earlier(a, b) ==
    \/ a[1] < b[1]
    \/ a[1] = b[1] /\ a[2] < b[2]
    \/ a[1] = b[1] /\ a[2] = b[2] /\ a[3] < b[3]

\* the analyzed posts of a calendar date
PostsOf(day) == {k \in 1..Len(tweets_data) : Day(tweets_data[k].date) = day}

\* the calendar dates occurring among the analyzed posts
Days == {Day(tweets_data[k].date) : k \in 1..Len(tweets_data)}

\* the buckets of the timeline holding a calendar date
BucketsOf(day) ==
    {i \in 1..Len(sentiment_timeline) :
        sentiment_timeline[i].date = strftime(DateTime(day[1], day[2], day[3], 0))}

\* number of analyzed posts of a calendar date that got a label
Labelled(day, label) == Cardinality({k \in PostsOf(day) : results[k].label = label})

RECURSIVE SumBuckets(_, _)
\* a counter summed over the first n buckets
SumBuckets(field, n) ==
    IF n = 0 THEN 0 ELSE sentiment_timeline[n][field] + SumBuckets(field, n - 1)

\* C13: the timeline of a backend report has exactly one bucket per calendar
\* date occurring among the analyzed posts and no other bucket, the buckets
\* are in strictly ascending chronological order, the counts of a bucket are
\* the numbers of posts of its date with each label, and the counts summed
\* over the buckets are the counts of the report.
C13_TimelineBuckets ==
    (Reported /\ impl = "backend") =>
        /\ Len(results) = Len(tweets_data)
        /\ \A day \in Days : Cardinality(BucketsOf(day)) = 1
        /\ \A i \in 1..Len(sentiment_timeline) : \E day \in Days : i \in BucketsOf(day)
        /\ \A a \in Days, b \in Days :
              \A i \in BucketsOf(a), j \in BucketsOf(b) : i < j => Earlier(a, b)
        /\ \A day \in Days : \A i \in BucketsOf(day) :
              /\ sentiment_timeline[i].positive = Labelled(day, "Positive")
              /\ sentiment_timeline[i].neutral = Labelled(day, "Neutral")
              /\ sentiment_timeline[i].negative = Labelled(day, "Negative")
        /\ SumBuckets("positive", Len(sentiment_timeline)) = response.positive_count
        /\ SumBuckets("neutral", Len(sentiment_timeline)) = response.neutral_count
        /\ SumBuckets("negative", Len(sentiment_timeline)) = response.negative_count
        /\ response.positive_count + response.neutral_count + response.negative_count
              = response.total_tweets

\* a report over posts that arrive out of chronological order, two of them on
\* the same day at different hours and with different labels
C13_Witness ==
    /\ Reported /\ impl = "backend"
    /\ Len(sentiment_timeline) >= 2
    /\ \E k \in 1..Len(tweets_data), j \in 1..Len(tweets_data) :
          /\ k < j
          /\ Earlier(Day(tweets_data[j].date), Day(tweets_data[k].date))
    /\ \E k \in 1..Len(tweets_data), j \in 1..Len(tweets_data) :
          /\ Day(tweets_data[k].date) = Day(tweets_data[j].date)
          /\ tweets_data[k].date.hour # tweets_data[j].date.hour
          /\ results[k].label # results[j].label

====
